---------------------------- MODULE Spec2Model ----------------------------
(***************************************************************************)
(* A model of lightsout (src/src/main.rs): the bit-packed Board, its       *)
(* toggle, score and move enumeration, the SearchState wrapper, the        *)
(* best-first driver a_star over std's BinaryHeap, and the replay of a     *)
(* solution's history in main.                                             *)
(*                                                                         *)
(* A Board is modelled by its rows (a sequence of naturals, row y of the   *)
(* source at index y + 1); width and height are the same for every board   *)
(* of one run and are variables of the model.  Rowtype is u64: with        *)
(* width < 62 no shift of the model leaves 64 bits, so rows are plain      *)
(* naturals.                                                               *)
(***************************************************************************)
EXTENDS Integers, Sequences, FiniteSets

VARIABLES
    width,            \* Board.width
    height,           \* Board.height
    overflow_checks,  \* build profile: TRUE = debug (usize underflow panics), FALSE = release (wraps)
    init_state,       \* a_star's init_state / main's init_board (rows)
    max_depth,        \* a_star's max_depth
    explored,         \* a_star: HashSet<T> of boards (a set of rows)
    fringe,           \* a_star: BinaryHeap<SearchState<T>>, as std's backing array
    pc,               \* where the program is
    result,           \* a_star's Option<SearchState<T>>: <<>> or <<state>>
    n_explored,       \* a_star's second result, explored.len()
    board,            \* main's replay board; the board under test in SpecBoard
    todo,             \* main: the part of soln.history not yet replayed
    prev,             \* SpecBoard: the board before the last call
    last_xy,          \* SpecBoard: the origin of the last call, <<>> or <<x, y>>
    first             \* SpecTie: what the first call of a_star returned, <<>> before a second call

vars == <<width, height, overflow_checks, init_state, max_depth, explored,
          fringe, pc, result, n_explored, board, todo, prev, last_xy, first>>

(***************************************************************************)
(* Bounds of the model.                                                    *)
(***************************************************************************)
MaxWidth == 3
MaxHeight == 3
\* the search specifications take grids of at most MaxCells cells, the
\* board specification grids of at most MaxGridCells cells
MaxCells == 6
MaxGridCells == 9
MaxDepth == 4
\* the specification of repeated calls takes grids of at most MaxTieCells
\* cells and depth bounds up to MaxTieDepth
MaxTieCells == 4
MaxTieDepth == 3

(***************************************************************************)
(* Bit arithmetic on Rowtype.                                              *)
(***************************************************************************)
Shl(a, n) == a * (2 ^ n)
Shr(a, n) == a \div (2 ^ n)

\* a faulty xor, for comparison: the bits are or-ed (|= written for ^=)
RECURSIVE BitOr(_, _)
BitOr(a, b) ==
    IF a = 0 THEN b
    ELSE IF b = 0 THEN a
    ELSE (IF (a % 2) + (b % 2) > 0 THEN 1 ELSE 0) + (2 * BitOr(a \div 2, b \div 2))

RECURSIVE BitXor(_, _)
BitXor(a, b) ==
    IF a = 0 THEN b
    ELSE IF b = 0 THEN a
    ELSE (((a % 2) + (b % 2)) % 2) + (2 * BitXor(a \div 2, b \div 2))

RECURSIVE BitAnd(_, _)
BitAnd(a, b) ==
    IF a = 0 \/ b = 0 THEN 0
    ELSE ((a % 2) * (b % 2)) + (2 * BitAnd(a \div 2, b \div 2))

\* Board::get: self.rows[y] & (1 << x) != 0
get(rows, x, y) == BitAnd(rows[y + 1], Shl(1, x)) # 0

(***************************************************************************)
(* Board::clone_toggle.  `1 << self.width + 1` is 1 << (width + 1): the    *)
(* row mask keeps the bits 0 .. width, one more than the grid has columns. *)
(***************************************************************************)
RowMask(x) == BitAnd(Shr(Shl(7, x), 1), Shl(1, width + 1) - 1)

\* a faulty clone_toggle, for comparison: the row above is left alone
clone_toggle_noup(rows, x, y) ==
    LET r2 == [rows EXCEPT ![y + 1] = BitXor(@, RowMask(x))]
    IN  IF y < height - 1 THEN [r2 EXCEPT ![y + 2] = BitXor(@, Shl(1, x))] ELSE r2

clone_toggle(rows, x, y) ==
    LET r1 == IF y > 0 THEN [rows EXCEPT ![y] = BitXor(@, Shl(1, x))] ELSE rows
        r2 == [r1 EXCEPT ![y + 1] = BitXor(@, RowMask(x))]
    IN  IF y < height - 1 THEN [r2 EXCEPT ![y + 2] = BitXor(@, Shl(1, x))] ELSE r2

(***************************************************************************)
(* Search for Board: score, end, moves.                                    *)
(***************************************************************************)
\* the number of off cells among the columns 0 .. width-1 of every row
score(rows) ==
    LET RECURSIVE RowOff(_, _)
        RowOff(row, x) ==
            IF x = width THEN 0
            ELSE (IF BitAnd(row, Shl(1, x)) = 0 THEN 1 ELSE 0) + RowOff(row, x + 1)
        RECURSIVE Sum(_)
        Sum(y) == IF y > Len(rows) THEN 0 ELSE RowOff(rows[y], 0) + Sum(y + 1)
    IN  Sum(1)

\* a faulty end, for comparison: every cell on
end_all_on(rows) == score(rows) = 0

end(rows) == score(rows) = width * height

\* the filter's target_score for the origin (x, y)
target_score(x, y) ==
    3 + (IF x > 0 /\ x < width - 1 THEN 1 ELSE 0)
      + (IF y > 0 /\ y < height - 1 THEN 1 ELSE 0)

\* usize subtraction in a build without overflow checks: a negative value v
\* stands for the wrapped 2^64 + v, which no score (<= width * height) equals
wrapping_sub(a, b) == a - b

\* a faulty filter, for comparison: == written for !=
filter_keep_eq(init_score, b, x, y) ==
    score(b) = wrapping_sub(init_score, target_score(x, y))

\* the filter's closure (lines 116-125) on the candidate (b, x, y): it is kept
\* unless its score is init_score - target_score
filter_keep(init_score, b, x, y) ==
    score(b) # wrapping_sub(init_score, target_score(x, y))

\* a faulty identifier, for comparison: the factor width is lost
move_id_sum(x, y) == x + y

\* the move identifier of line 126
move_id(x, y) == x * width + y

\* the k-th origin (k from 1) in the order of the two nested ranges: x outer, y inner
OriginX(k) == (k - 1) \div height
OriginY(k) == (k - 1) % height

\* moves() panics in a build with overflow checks when init_score < target_score
moves_panics(rows) ==
    /\ overflow_checks
    /\ LET init_score == score(rows)
       IN  \E k \in 1 .. width * height : init_score < target_score(OriginX(k), OriginY(k))

\* lines 112-125: the candidates (board, x, y) that pass the filter, in order
kept(rows) ==
    LET init_score == score(rows)
        RECURSIVE Collect(_)
        Collect(k) ==
            IF k > width * height THEN <<>>
            ELSE LET x == OriginX(k)
                     y == OriginY(k)
                     b == clone_toggle(rows, x, y)
                 IN  (IF filter_keep(init_score, b, x, y)
                      THEN <<[board |-> b, x |-> x, y |-> y]>>
                      ELSE <<>>) \o Collect(k + 1)
    IN  Collect(1)

\* Board::moves: each kept candidate with its identifier (line 126)
Board_moves(rows) ==
    LET ks == kept(rows)
    IN  [k \in 1 .. Len(ks) |-> [board |-> ks[k].board, id |-> move_id(ks[k].x, ks[k].y)]]

\* Board::new
Board_new(w, h) == [y \in 1 .. h |-> 0]

\* Board::randomize, rnd[y] being what rng.gen() returns for row y
randomize(rows, w, rnd) == [y \in 1 .. Len(rows) |-> rnd[y] % Shl(1, w)]

(***************************************************************************)
(* SearchState<T>.  latest_move_index: Option<usize> is <<>> (None) or     *)
(* <<i>> (Some(i)).  steps is auxiliary (not a field of the source): the   *)
(* number of moves() transitions between init_state and latest.            *)
(***************************************************************************)
\* From<T> for SearchState<T>
from(value) ==
    [history |-> <<>>, latest |-> value, latest_move_index |-> <<>>,
     score |-> score(value), steps |-> 0]

\* a faulty new_history, for comparison: nothing is pushed
new_history_none(state, move_index) == state.history

\* a faulty new_history, for comparison: the child's own move is pushed
new_history_own(state, move_index) == state.history \o <<move_index>>

\* new_history: the parent's history, with its latest_move_index pushed when it is Some
new_history(state, move_index) == state.history \o state.latest_move_index

\* SearchState::moves: one child per move of state.latest, in order
SearchState_moves(state) ==
    LET mvs == Board_moves(state.latest)
    IN  [k \in 1 .. Len(mvs) |->
            [history |-> new_history(state, mvs[k].id),
             latest |-> mvs[k].board,
             latest_move_index |-> <<mvs[k].id>>,
             score |-> score(mvs[k].board),
             steps |-> state.steps + 1]]

(***************************************************************************)
(* std::collections::BinaryHeap<SearchState<T>>: a max-heap in an array,   *)
(* ordered by Ord for SearchState (the cached score alone).  Positions are *)
(* 0-based as in std; data[pos + 1] is std's data[pos].                    *)
(***************************************************************************)
\* a faulty sift_up, for comparison: the element stays where it was pushed
sift_up_stay(data, pos, e) == [data EXCEPT ![pos + 1] = e]

\* sift_up(0, pos) with the hole's element e
RECURSIVE sift_up(_, _, _)
sift_up(data, pos, e) ==
    IF pos > 0 /\ ~(e.score <= data[((pos - 1) \div 2) + 1].score)
    THEN sift_up([data EXCEPT ![pos + 1] = data[((pos - 1) \div 2) + 1]],
                 (pos - 1) \div 2, e)
    ELSE [data EXCEPT ![pos + 1] = e]

\* BinaryHeap::push
heap_push(data, item) == sift_up(Append(data, item), Len(data), item)

\* sift_down_to_bottom(0): the hole goes down along the greater children
\* (the right one on a tie), then its element is sifted up from there
RECURSIVE sift_down_to_bottom(_, _, _)
sift_down_to_bottom(data, pos, e) ==
    LET end_ == Len(data)
        child == 2 * pos + 1
    IN  IF end_ >= 2 /\ child <= end_ - 2
        THEN LET c == IF data[child + 1].score <= data[child + 2].score
                      THEN child + 1 ELSE child
             IN  sift_down_to_bottom([data EXCEPT ![pos + 1] = data[c + 1]], c, e)
        ELSE IF child = end_ - 1
        THEN sift_up([data EXCEPT ![pos + 1] = data[child + 1]], child, e)
        ELSE sift_up(data, pos, e)

\* BinaryHeap::pop on a non-empty heap: the item returned, and the heap left
heap_pop_item(data) == data[1]

heap_pop_rest(data) ==
    LET last == data[Len(data)]
        rest == SubSeq(data, 1, Len(data) - 1)
    IN  IF rest = <<>> THEN <<>> ELSE sift_down_to_bottom(rest, 0, last)

(***************************************************************************)
(* a_star: one action per outcome of one iteration of the loop.            *)
(***************************************************************************)
\* a faulty loop, for comparison: every child is pushed
push_all(data, children, seen) ==
    LET RECURSIVE Go(_, _)
        Go(d, k) ==
            IF k > Len(children) THEN d
            ELSE Go(heap_push(d, children[k]), k + 1)
    IN  Go(data, 1)

\* the for loop of lines 217-221: push every child whose board is not in explored
push_new(data, children, seen) ==
    LET RECURSIVE Go(_, _)
        Go(d, k) ==
            IF k > Len(children) THEN d
            ELSE Go(IF children[k].latest \notin seen
                    THEN heap_push(d, children[k]) ELSE d, k + 1)
    IN  Go(data, 1)

\* a faulty bound, for comparison: <= written for <
below_depth_le(state) == Len(state.history) <= max_depth

\* line 215
below_depth(state) == Len(state.history) < max_depth

\* the boards main can hand to a_star: new, then randomize; the random
\* numbers are drawn from 0 .. 2^(w+1) - 1, one bit more than a row keeps
Boards(w, h) ==
    {randomize(Board_new(w, h), w, rnd) : rnd \in [1 .. h -> 0 .. (2 ^ (w + 1)) - 1]}

InitCommon ==
    /\ init_state \in Boards(width, height)
    /\ explored = {}
    /\ fringe = <<from(init_state)>>
    /\ pc = "running"
    /\ result = <<>>
    /\ n_explored = 0
    /\ board = init_state
    /\ todo = <<>>
    /\ prev = init_state
    /\ last_xy = <<>>
    /\ first = <<>>

Init ==
    /\ width \in 1 .. MaxWidth
    /\ height \in 1 .. MaxHeight
    /\ width * height <= MaxCells
    /\ max_depth \in 0 .. MaxDepth
    /\ overflow_checks \in BOOLEAN
    /\ InitCommon

main_vars == <<board, todo>>
input_vars == <<width, height, overflow_checks, init_state, max_depth, prev, last_xy, first>>

\* line 205: the fringe is empty, a_star returns None
PopNone ==
    /\ pc = "running"
    /\ fringe = <<>>
    /\ result' = <<>>
    /\ n_explored' = Cardinality(explored)
    /\ pc' = "returned"
    /\ UNCHANGED <<explored, fringe, main_vars, input_vars>>

\* lines 213-214: the popped state is terminal, a_star returns it
PopEnd ==
    /\ pc = "running"
    /\ fringe # <<>>
    /\ end(heap_pop_item(fringe).latest)
    /\ result' = <<heap_pop_item(fringe)>>
    /\ n_explored' = Cardinality(explored)
    /\ fringe' = heap_pop_rest(fringe)
    /\ pc' = "returned"
    /\ UNCHANGED <<explored, main_vars, input_vars>>

\* lines 215-221: the popped state is expanded; moves() may panic on underflow
Expand ==
    /\ pc = "running"
    /\ fringe # <<>>
    /\ LET state == heap_pop_item(fringe)
       IN  /\ ~end(state.latest)
           /\ below_depth(state)
           /\ explored' = explored \cup {state.latest}
           /\ IF moves_panics(state.latest)
              THEN /\ pc' = "panicked"
                   /\ fringe' = heap_pop_rest(fringe)
              ELSE /\ pc' = pc
                   /\ fringe' = push_new(heap_pop_rest(fringe),
                                         SearchState_moves(state), explored')
    /\ UNCHANGED <<result, n_explored, main_vars, input_vars>>

\* the popped state has reached the depth bound: dropped
Drop ==
    /\ pc = "running"
    /\ fringe # <<>>
    /\ LET state == heap_pop_item(fringe)
       IN  /\ ~end(state.latest)
           /\ ~below_depth(state)
    /\ fringe' = heap_pop_rest(fringe)
    /\ UNCHANGED <<explored, pc, result, n_explored, main_vars, input_vars>>

(***************************************************************************)
(* main, after a_star has returned (lines 245-260).                        *)
(***************************************************************************)
\* line 246
NoSolution ==
    /\ pc = "returned"
    /\ result = <<>>
    /\ pc' = "done"
    /\ UNCHANGED <<explored, fringe, result, n_explored, main_vars, input_vars>>

\* lines 247-250: the replay starts from the clone of init_board
ReplayStart ==
    /\ pc = "returned"
    /\ result # <<>>
    /\ todo' = result[1].history
    /\ board' = init_state
    /\ pc' = "replay"
    /\ UNCHANGED <<explored, fringe, result, n_explored, input_vars>>

\* line 251: the first move of board.moves() whose identifier is move_id
find_move(mvs, id) ==
    LET hits == SelectSeq(mvs, LAMBDA m : m.id = id)
    IN  IF hits = <<>> THEN <<>> ELSE <<hits[1].board>>

\* lines 250-256: one iteration of the replay
ReplayStep ==
    /\ pc = "replay"
    /\ todo # <<>>
    /\ IF moves_panics(board) \/ find_move(Board_moves(board), Head(todo)) = <<>>
       THEN /\ pc' = "panicked"
            /\ UNCHANGED board
       ELSE /\ pc' = pc
            /\ board' = find_move(Board_moves(board), Head(todo))[1]
    /\ todo' = Tail(todo)
    /\ UNCHANGED <<explored, fringe, result, n_explored, input_vars>>

\* lines 257-258: soln.latest and the number of moves are printed
ReplayEnd ==
    /\ pc = "replay"
    /\ todo = <<>>
    /\ pc' = "done"
    /\ UNCHANGED <<explored, fringe, result, n_explored, main_vars, input_vars>>

Next ==
    \/ PopNone
    \/ PopEnd
    \/ Expand
    \/ Drop
    \/ NoSolution
    \/ ReplayStart
    \/ ReplayStep
    \/ ReplayEnd

Spec == Init /\ [][Next]_vars

(***************************************************************************)
(* The search on two 3 x 3 boards, the ring of the four edge cells and the *)
(* centre cell alone, with max_depth = 4, under both build profiles.       *)
(***************************************************************************)
InitDeep ==
    /\ width = 3
    /\ height = 3
    /\ max_depth = 4
    /\ overflow_checks \in BOOLEAN
    /\ InitCommon
    /\ init_state \in {<<2, 5, 2>>, <<0, 2, 0>>}

SpecDeep == InitDeep /\ [][Next]_vars

(***************************************************************************)
(* The search and the replay on the grid of width 2 and height 4, where    *)
(* two origins share a move identifier, with max_depth = 0 and with the    *)
(* max_depth main passes, width * height, under both build profiles.       *)
(***************************************************************************)
InitTall ==
    /\ width = 2
    /\ height = 4
    /\ max_depth \in {0, width * height}
    /\ overflow_checks \in BOOLEAN
    /\ InitCommon
    /\ init_state \in {<<0, 1, 1, 1>>, <<3, 2, 1, 1>>, <<0, 0, 0, 0>>}

SpecTall == InitTall /\ [][Next]_vars

(***************************************************************************)
(* Repeated calls of a_star on one init_state and max_depth.  The first    *)
(* call is the program's, with std's BinaryHeap.  The second call is       *)
(* either the same again, or a call with another priority queue: Ord for   *)
(* SearchState compares the score alone, and which of several states of    *)
(* equal score pop() returns is left to the queue.  Two such queues are    *)
(* taken, both kept in the order of the pushes: one returns the oldest of  *)
(* its greatest search states, the other the newest.                       *)
(***************************************************************************)
\* what a_star returns: the terminal board, if any, and explored.len()
outcome ==
    [terminal |-> IF result = <<>> THEN <<>> ELSE <<result[1].latest>>,
     explored_count |-> n_explored]

\* a faulty start of a_star, for comparison: the set of the call before is kept
explored_kept(old) == old

\* line 195: explored is a new HashSet in every call
explored_new(old) == {}

InitTie ==
    /\ width \in 1 .. MaxWidth
    /\ height \in 1 .. MaxHeight
    /\ width * height <= MaxTieCells
    /\ max_depth \in 0 .. MaxTieDepth
    /\ overflow_checks \in BOOLEAN
    /\ InitCommon

tie_frame == <<width, height, overflow_checks, init_state, max_depth, prev, last_xy,
               board, todo>>

\* lines 195-197, in a second call with std's BinaryHeap
CallAgain ==
    /\ pc = "returned"
    /\ first = <<>>
    /\ first' = <<outcome>>
    /\ explored' = explored_new(explored)
    /\ fringe' = <<from(init_state)>>
    /\ result' = <<>>
    /\ n_explored' = 0
    /\ pc' = "running"
    /\ UNCHANGED tie_frame

\* lines 195-197, in a second call with one of the two other queues
CallAgainAny ==
    /\ pc = "returned"
    /\ first = <<>>
    /\ first' = <<outcome>>
    /\ explored' = explored_new(explored)
    /\ fringe' = <<from(init_state)>>
    /\ result' = <<>>
    /\ n_explored' = 0
    /\ pc' \in {"running_oldest", "running_newest"}
    /\ UNCHANGED tie_frame

\* the positions of the greatest search states (lines 186-190)
greatest(data) ==
    {k \in 1 .. Len(data) : \A j \in 1 .. Len(data) : data[j].score <= data[k].score}

\* the position pop() returns on a non-empty frontier, by the queue of the call
popped(data) ==
    IF pc = "running_oldest"
    THEN CHOOSE k \in greatest(data) : \A j \in greatest(data) : k <= j
    ELSE CHOOSE k \in greatest(data) : \A j \in greatest(data) : j <= k

running_any == pc \in {"running_oldest", "running_newest"}

\* the frontier without the state at position k
without(data, k) == SubSeq(data, 1, k - 1) \o SubSeq(data, k + 1, Len(data))

\* the for loop of lines 217-221 on that frontier
push_new_any(data, children, seen) ==
    data \o SelectSeq(children, LAMBDA c : c.latest \notin seen)

\* line 205
PopNoneAny ==
    /\ running_any
    /\ fringe = <<>>
    /\ result' = <<>>
    /\ n_explored' = Cardinality(explored)
    /\ pc' = "returned_any"
    /\ UNCHANGED <<explored, fringe, main_vars, input_vars>>

\* lines 213-214
PopEndAny ==
    /\ running_any
    /\ fringe # <<>>
    /\ \E k \in {popped(fringe)} :
          /\ end(fringe[k].latest)
          /\ result' = <<fringe[k]>>
          /\ fringe' = without(fringe, k)
    /\ n_explored' = Cardinality(explored)
    /\ pc' = "returned_any"
    /\ UNCHANGED <<explored, main_vars, input_vars>>

\* lines 215-221
ExpandAny ==
    /\ running_any
    /\ fringe # <<>>
    /\ \E k \in {popped(fringe)} :
          LET state == fringe[k]
          IN  /\ ~end(state.latest)
              /\ below_depth(state)
              /\ explored' = explored \cup {state.latest}
              /\ IF moves_panics(state.latest)
                 THEN /\ pc' = "panicked"
                      /\ fringe' = without(fringe, k)
                 ELSE /\ pc' = pc
                      /\ fringe' = push_new_any(without(fringe, k),
                                                SearchState_moves(state), explored')
    /\ UNCHANGED <<result, n_explored, main_vars, input_vars>>

\* the popped state has reached the depth bound: dropped
DropAny ==
    /\ running_any
    /\ fringe # <<>>
    /\ \E k \in {popped(fringe)} :
          /\ ~end(fringe[k].latest)
          /\ ~below_depth(fringe[k])
          /\ fringe' = without(fringe, k)
    /\ UNCHANGED <<explored, pc, result, n_explored, main_vars, input_vars>>

NextTie ==
    \/ PopNone
    \/ PopEnd
    \/ Expand
    \/ Drop
    \/ CallAgain
    \/ CallAgainAny
    \/ PopNoneAny
    \/ PopEndAny
    \/ ExpandAny
    \/ DropAny

SpecTie == InitTie /\ [][NextTie]_vars

(***************************************************************************)
(* Reachability by moves() transitions, for the statements about the       *)
(* search's outcome.  A board on which moves() panics has no transition.   *)
(***************************************************************************)
Successors(b) ==
    IF moves_panics(b) THEN {}
    ELSE {Board_moves(b)[k].board : k \in 1 .. Len(Board_moves(b))}

\* an end() board lies at most d transitions from a board of the set bs
RECURSIVE EndWithin(_, _, _)
EndWithin(bs, seen, d) ==
    IF \E b \in bs : end(b) THEN TRUE
    ELSE IF d = 0 \/ bs = {} THEN FALSE
    ELSE EndWithin((UNION {Successors(b) : b \in bs}) \ (seen \cup bs), seen \cup bs, d - 1)

\* C3: when a_star returns None, no end() board is reachable from init_state
\* by at most max_depth moves() transitions.
C3_NoneMeansUnreachable ==
    (pc = "returned" /\ result = <<>>) => ~EndWithin({init_state}, {}, max_depth)

(***************************************************************************)
(* The Board alone: a board as main builds it, then any sequence of        *)
(* clone_toggle calls and of moves() transitions.  prev and last_xy keep   *)
(* the board and the origin of the last call; init_state is the board as   *)
(* Board::new leaves it and board the one randomize has filled.            *)
(***************************************************************************)
InitBoard ==
    /\ width \in 1 .. MaxWidth
    /\ height \in 1 .. MaxHeight
    /\ width * height <= MaxGridCells
    /\ overflow_checks \in BOOLEAN
    /\ init_state = Board_new(width, height)
    /\ max_depth = 0
    /\ explored = {}
    /\ fringe = <<>>
    /\ pc = "new"
    /\ result = <<>>
    /\ n_explored = 0
    /\ board \in Boards(width, height)
    /\ todo = <<>>
    /\ prev = board
    /\ last_xy = <<>>
    /\ first = <<>>

board_frame ==
    <<width, height, overflow_checks, init_state, max_depth, explored, fringe,
      result, n_explored, todo, first>>

\* board = board.clone_toggle(x, y) for an in-range origin
Toggle ==
    /\ pc = "new"
    /\ \E x \in 0 .. width - 1, y \in 0 .. height - 1 :
          /\ board' = clone_toggle(board, x, y)
          /\ last_xy' = <<x, y>>
    /\ prev' = board
    /\ pc' = "toggled"
    /\ UNCHANGED board_frame

\* board = one of the boards board.moves() returns; moves() may panic
Move ==
    /\ pc = "new"
    /\ IF moves_panics(board)
       THEN /\ pc' = "panicked"
            /\ UNCHANGED <<board, prev, last_xy>>
       ELSE LET ks == kept(board)
                mvs == Board_moves(board)
            IN  \E k \in 1 .. Len(mvs) :
                   /\ board' = mvs[k].board
                   /\ last_xy' = <<ks[k].x, ks[k].y>>
                   /\ prev' = board
                   /\ pc' = "moved"
    /\ UNCHANGED board_frame

\* the caller goes on with the board it has
Continue ==
    /\ pc \in {"toggled", "moved"}
    /\ pc' = "new"
    /\ prev' = board
    /\ last_xy' = <<>>
    /\ UNCHANGED <<board, board_frame>>

NextBoard == Toggle \/ Move \/ Continue

SpecBoard == InitBoard /\ [][NextBoard]_vars

(***************************************************************************)
(* Properties.                                                             *)
(***************************************************************************)
\* a_star has returned, and main goes on without a panic
Returned == pc \in {"returned", "replay", "done"}

\* every search state a_star holds or has returned
Held == {fringe[k] : k \in 1 .. Len(fringe)} \cup {result[k] : k \in 1 .. Len(result)}

\* move identifiers are distinct on a grid with height <= width or one column
DistinctIds == height <= width \/ width = 1

C4_WithinDepth ==
    \A s \in Held :
        /\ s.steps <= max_depth
        /\ Len(s.history) + Len(s.latest_move_index) <= max_depth

\* C4, amended: the history of every search state is at most max_depth long,
\* and the state lies at most max_depth + 1 moves from init_state.
C4_WithinDepthPlusOne ==
    \A s \in Held :
        /\ Len(s.history) <= max_depth
        /\ s.steps <= max_depth + 1
        /\ s.steps = Len(s.history) + Len(s.latest_move_index)

C4_Witness ==
    /\ pc = "returned"
    /\ result # <<>>
    /\ max_depth >= 1
    /\ result[1].steps = max_depth + 1

\* a measure of the work left: every search state of the fringe weighs
\* Branch to the power of the moves it may still be extended by, and one
\* state weighs more than all the children it can have
Branch == (width * height) + 1

Variant ==
    LET RECURSIVE Sum(_)
        Sum(k) ==
            IF k > Len(fringe) THEN 0
            ELSE (Branch ^ ((max_depth + 1) - fringe[k].steps)) + Sum(k + 1)
    IN  Sum(1)

\* C5: the loop of a_star terminates by returning: an iteration returns or
\* leaves strictly less work, and none ends the program otherwise.
C5_Terminates ==
    [][pc = "running" =>
          /\ pc' \in {"running", "returned"}
          /\ pc' = "running" => Variant' < Variant]_vars

\* in a build without overflow checks it does
C5_TerminatesWrapping ==
    [][(pc = "running" /\ ~overflow_checks) =>
          /\ pc' \in {"running", "returned"}
          /\ pc' = "running" => Variant' < Variant]_vars

\* C6: clone_toggle at the origin of the last clone_toggle gives back the
\* board before it.
C6_Involution ==
    pc = "toggled" => clone_toggle(board, last_xy[1], last_xy[2]) = prev

C6_Witness ==
    /\ pc = "toggled"
    /\ width = 3 /\ height = 3
    /\ last_xy = <<2, 1>>
    /\ prev # init_state
    /\ (\E y \in 1 .. height : prev[y] >= Shl(1, width))

\* C7: on an all-off init_state a_star returns the root at the first pop:
\* empty history, no originating move, explored_count 0.
C7_SolvedAtOnce ==
    init_state = Board_new(width, height) =>
        /\ pc = "running" => (fringe = <<from(init_state)>> /\ explored = {})
        /\ pc # "running" =>
              /\ Returned
              /\ result = <<from(init_state)>>
              /\ result[1].history = <<>>
              /\ result[1].latest_move_index = <<>>
              /\ n_explored = 0
              /\ explored = {}

C7_Witness ==
    /\ init_state = Board_new(width, height)
    /\ pc = "done"
    /\ width * height >= 4
    /\ overflow_checks

\* the plus of the origin (x, y): the cell and its four neighbours
InPlus(cx, cy, x, y) ==
    \/ cx = x /\ cy \in {y - 1, y, y + 1}
    \/ cy = y /\ cx \in {x - 1, x + 1}

\* C8 as claimed: a move moves() returns changes the score by the expected
\* count of its origin, and a candidate that does not is not returned.
C8_KeptOnlyIfMatches ==
    /\ pc = "moved" =>
          \/ score(board) - score(prev) = target_score(last_xy[1], last_xy[2])
          \/ score(prev) - score(board) = target_score(last_xy[1], last_xy[2])
    /\ (pc = "new" /\ ~moves_panics(board)) =>
          \A k \in 1 .. Len(Board_moves(board)) :
              \E x \in 0 .. width - 1, y \in 0 .. height - 1 :
                  /\ Board_moves(board)[k].board = clone_toggle(board, x, y)
                  /\ score(board) - score(clone_toggle(board, x, y)) = target_score(x, y)

\* C8, amended: moves(), when it returns, returns the toggle at (x, y) if and
\* only if the toggled board's score is not the score less the expected count.
C8_KeptIffScoreDiffers ==
    /\ pc = "moved" =>
          score(board) # score(prev) - target_score(last_xy[1], last_xy[2])
    /\ (pc = "new" /\ ~moves_panics(board)) =>
          \A mvs \in {Board_moves(board)}, init_score \in {score(board)} :
              \A x \in 0 .. width - 1, y \in 0 .. height - 1 :
                  \A b \in {clone_toggle(board, x, y)} :
                      (score(b) # init_score - target_score(x, y))
                          <=> (\E k \in 1 .. Len(mvs) :
                                  mvs[k] = [board |-> b, id |-> move_id(x, y)])

C8_Witness ==
    /\ pc = "moved"
    /\ width = 3 /\ height = 3
    /\ last_xy = <<1, 1>>
    /\ Len(kept(prev)) < width * height
    /\ score(prev) >= 5

\* C9: clone_toggle flips the grid cells of the origin's plus and no other
\* grid cell.
C9_FlipsThePlus ==
    pc = "toggled" =>
        \A cx \in 0 .. width - 1, cy \in 0 .. height - 1 :
            (get(board, cx, cy) # get(prev, cx, cy))
                <=> InPlus(cx, cy, last_xy[1], last_xy[2])

C9_Witness ==
    /\ pc = "toggled"
    /\ width = 3 /\ height = 3
    /\ last_xy = <<1, 1>>
    /\ get(prev, 1, 0) /\ ~get(board, 1, 0)
    /\ ~get(prev, 0, 1) /\ get(board, 0, 1)

\* C10: every board of the search has every row below 2^width.
C10_RowsInRange ==
    \A b \in explored \cup {s.latest : s \in Held} \cup {board} :
        \A y \in 1 .. height : b[y] < Shl(1, width)

\* C11: at every step of the replay, board.moves() holds a move whose
\* identifier is the next index of the history (when moves() returns at all).
C11_ReplayFindsMove ==
    (pc = "replay" /\ todo # <<>> /\ ~moves_panics(board)) =>
        find_move(Board_moves(board), Head(todo)) # <<>>

\* C12: on every board a_star has expanded, init_score - target_score does
\* not underflow for any origin: the board's score is at least the expected
\* count of every origin.
C12_NoUnderflow ==
    \A b \in explored :
        \A x \in 0 .. width - 1, y \in 0 .. height - 1 :
            score(b) >= target_score(x, y)

\* the boards a and b have the same state in every cell of the grid
same_cells(a, b) ==
    \A x \in 0 .. width - 1, y \in 0 .. height - 1 : get(a, x, y) = get(b, x, y)

C14_ExpandsOnce ==
    (pc = "running" /\ fringe # <<>>) =>
        \A state \in {heap_pop_item(fringe)} :
            (~end(state.latest) /\ below_depth(state)) => state.latest \notin explored

\* C15: every search state an iteration of a_star pushes holds a board that
\* is not in explored when it is pushed (explored then holds the board just
\* expanded); the iteration pushes one state for each such child.
C15_PushedNotExplored ==
    [][(pc = "running" /\ fringe # <<>> /\ pc' = "running") =>
          /\ \A k \in 1 .. Len(fringe') :
                (fringe'[k] \notin Held) => fringe'[k].latest \notin explored'
          /\ below_depth(heap_pop_item(fringe)) =>
                \A cs \in {SearchState_moves(heap_pop_item(fringe))} :
                    Len(fringe') = (Len(fringe) - 1)
                        + Cardinality({k \in 1 .. Len(cs) : cs[k].latest \notin explored'})]_vars

\* a child of an expanded board is on the frontier, another child of it is
\* in explored
C15_Witness ==
    /\ pc = "running"
    /\ \E b \in explored :
          /\ ~moves_panics(b)
          /\ \E c \in Successors(b) : c \in explored
          /\ \E c \in Successors(b) : \E k \in 1 .. Len(fringe) :
                fringe[k].latest = c /\ c \notin explored

\* C16: the search state the next pop returns has a cached score no less than
\* that of every search state of the frontier, and the cached score of every
\* state held is score() of its board; a returned state has a score no less
\* than that of every state left on the frontier.
C16_BestFirst ==
    /\ (pc = "running" /\ fringe # <<>>) =>
          \A k \in 1 .. Len(fringe) : fringe[k].score <= heap_pop_item(fringe).score
    /\ \A s \in Held : s.score = score(s.latest)
    /\ (pc = "returned" /\ result # <<>>) =>
          \A k \in 1 .. Len(fringe) : fringe[k].score <= result[1].score

C16_Witness ==
    /\ pc = "running"
    /\ explored # {}
    /\ Len(fringe) >= 4
    /\ \E k \in 1 .. Len(fringe) : fringe[k].score < heap_pop_item(fringe).score
    /\ \E k \in 2 .. Len(fringe) : fringe[k].score = heap_pop_item(fringe).score
    /\ \E j, k \in 1 .. Len(fringe) : j < k /\ fringe[j].score < fringe[k].score

\* C17: every search state an expansion pushes is derived from the popped
\* parent: its history is the parent's history, with the parent's
\* latest_move_index appended when the parent has one, and its board and
\* latest_move_index are a move of the parent's board and that move's
\* identifier; the states already on the frontier are left as they were.
C17_ChildDerivation ==
    [][(pc = "running" /\ fringe # <<>> /\ pc' = "running") =>
          \A parent \in {heap_pop_item(fringe)}, mvs \in {Board_moves(heap_pop_item(fringe).latest)} :
              \A k \in 1 .. Len(fringe') :
                  \/ fringe'[k] \in Held
                  \/ /\ fringe'[k].history =
                           IF parent.latest_move_index = <<>>
                           THEN parent.history
                           ELSE Append(parent.history, parent.latest_move_index[1])
                     /\ \E m \in 1 .. Len(mvs) :
                           /\ fringe'[k].latest = mvs[m].board
                           /\ fringe'[k].latest_move_index = <<mvs[m].id>>]_vars

\* the frontier holds a child of the root and a state two moves further on
C17_Witness ==
    /\ pc = "running"
    /\ \E k \in 1 .. Len(fringe) :
          fringe[k].history = <<>> /\ fringe[k].latest_move_index # <<>>
    /\ \E k \in 1 .. Len(fringe) :
          Len(fringe[k].history) = 2 /\ fringe[k].history[1] # fringe[k].history[2]

\* C18: no two moves that one call of moves() returns carry the same
\* identifier, and the first move with the identifier of a kept origin
\* (x, y) is the toggle at (x, y).
C18_IdsIdentifyMoves ==
    (pc = "new" /\ ~moves_panics(board)) =>
        \A mvs \in {Board_moves(board)}, ks \in {kept(board)} :
            /\ \A j, k \in 1 .. Len(mvs) : mvs[j].id = mvs[k].id => j = k
            /\ \A k \in 1 .. Len(ks) :
                  find_move(mvs, move_id(ks[k].x, ks[k].y))
                      = <<clone_toggle(board, ks[k].x, ks[k].y)>>

\* C19: explored never holds two boards with the same state in every cell of
\* the grid: boards with the same cells are equal (have the same rows).
C19_VisitedByCells ==
    \A a, b \in explored : same_cells(a, b) => a = b

\* the grid cells in which the boards a and b differ
flipped(a, b) ==
    {c \in (0 .. width - 1) \X (0 .. height - 1) : get(a, c[1], c[2]) # get(b, c[1], c[2])}

\* C20: the expected count of the origin of a clone_toggle is the number of
\* grid cells the clone_toggle has flipped.
C20_ExpectedIsFlipped ==
    pc = "toggled" =>
        Cardinality(flipped(prev, board)) = target_score(last_xy[1], last_xy[2])

\* on the grids with at least two columns and two rows it is
C20_ExpectedIsFlippedOnWideGrids ==
    (pc = "toggled" /\ width >= 2 /\ height >= 2) =>
        Cardinality(flipped(prev, board)) = target_score(last_xy[1], last_xy[2])

=============================================================================
